---- MODULE Spec2Model ----
(***************************************************************************)
(* Model of src/src/wasm-emscripten.cpp: the emscripten glue passes of     *)
(* binaryen (makeDynCallThunks, AsmConstWalker, generateEmscriptenMetadata)*)
(* Strings are TLA+ strings; C++ indices are 0-based and kept 0-based in   *)
(* the helpers below (CharAt, find, replace), as in the source.            *)
(***************************************************************************)
EXTENDS Integers, Sequences, FiniteSets, TLC

VARIABLES
  imports,              \* Module::imports, the names in vector order
  calls,                \* the CallImport nodes of the module, in walk order
  functions,            \* Module::functions (the table's functions, then thunks)
  tableSegmentData,     \* argument of the makeDynCallThunks call
  generatedFunctions,   \* value returned by makeDynCallThunks
  tpc,                  \* "idle" before makeDynCallThunks, "returned" after
  pc,                   \* "idle", "walk" (inside walkModule), "done" (record written)
  pos,                  \* 1-based index of the next call site the walker visits
  sigsForCode,          \* AsmConstWalker::sigsForCode
  ids,                  \* AsmConstWalker::ids
  allSigs,              \* AsmConstWalker::allSigs
  o,                    \* the text written to the output stream so far
  staticBump,           \* argument of generateEmscriptenMetadata
  initializerFunctions, \* argument of generateEmscriptenMetadata
  runs,                 \* number of generateEmscriptenMetadata calls started
  input,                \* argument of a direct escape call
  escaped,              \* value returned by that call
  epc                   \* "idle" before the escape call, "returned" after

vars == <<imports, calls, functions, tableSegmentData, generatedFunctions, tpc,
          pc, pos, sigsForCode, ids, allSigs, o, staticBump,
          initializerFunctions, runs, input, escaped, epc>>

thunkVars == <<functions, tableSegmentData, generatedFunctions, tpc>>
walkerVars == <<pc, pos, sigsForCode, ids, allSigs>>
emitVars == <<o, staticBump, initializerFunctions, runs>>
escapeVars == <<input, escaped, epc>>

(***************************************************************************)
(* Bounds of the model.                                                    *)
(***************************************************************************)
MaxCalls == 3
MaxRuns == 2
MaxTable == 4
MaxImports == 3
MaxLen == 4

(***************************************************************************)
(* String helpers (std::string, cashew::IString).                          *)
(***************************************************************************)
npos == -1

CharAt(s, i) == SubSeq(s, i + 1, i + 1)

EMSCRIPTEN_ASM_CONST == "emscripten_asm_const"

\* IString::hasSubstring: strstr(str, substring) != nullptr
hasSubstring(s, sub) ==
  \E i \in 0..(Len(s) - Len(sub)) : SubSeq(s, i + 1, i + Len(sub)) = sub

\* std::string::find(pat, curr): the least 0-based index >= curr where pat
\* occurs, npos when there is none
find(code, pat, curr) ==
  LET hits == {i \in curr..(Len(code) - Len(pat)) :
                 SubSeq(code, i + 1, i + Len(pat)) = pat}
  IN IF hits = {} THEN npos
     ELSE CHOOSE i \in hits : \A j \in hits : i <= j

\* std::string::replace(at, len, str)
replace(code, at, len, str) ==
  SubSeq(code, 1, at) \o str \o SubSeq(code, at + len + 1, Len(code))

RECURSIVE escapeNewlines(_, _)
\* first loop of escape: every backslash-n gets one more backslash
escapeNewlines(code, curr) ==
  LET at == find(code, "\\n", curr)
  IN IF at = npos THEN code
     ELSE escapeNewlines(replace(code, at, 2, "\\\\n"), at + 3)

RECURSIVE escapeQuotes(_, _)
\* second loop of escape: quotes, by the character before them
escapeQuotes(code, curr) ==
  LET at == find(code, "\"", curr)
  IN IF at = npos THEN code
     ELSE IF at = 0 \/ CharAt(code, at - 1) # "\\"
          THEN escapeQuotes(replace(code, at, 1, "\\\""), at + 2)
          ELSE escapeQuotes(replace(code, at, 1, "\\\\\""), at + 3)

escape(in) == escapeQuotes(escapeNewlines(in, 0), 0)


(***************************************************************************)
(* The module the passes run on.  Memory holds three NUL-terminated        *)
(* strings; the third contains a double quote, so that escape matters.     *)
(***************************************************************************)
memorySegments == [i \in 0..2 |-> IF i = 0 THEN "x" ELSE IF i = 1 THEN "y" ELSE "a\"b"]

segmentsByAddress == [a \in {8, 16, 24} |-> (a \div 8) - 1]

Const(v) == [type |-> "i", value |-> v]
Arg(t) == [type |-> t, value |-> 0]

\* the call sites a function body of the model may hold
CallShapes ==
  { [target |-> EMSCRIPTEN_ASM_CONST, type |-> "i", operands |-> <<Const(8)>>],
    [target |-> EMSCRIPTEN_ASM_CONST, type |-> "v", operands |-> <<Const(8)>>],
    [target |-> "emscripten_asm_const_int", type |-> "i", operands |-> <<Const(16), Arg("d")>>],
    [target |-> EMSCRIPTEN_ASM_CONST, type |-> "i", operands |-> <<Const(24)>>],
    [target |-> EMSCRIPTEN_ASM_CONST, type |-> "v", operands |-> <<Const(32)>>],
    [target |-> EMSCRIPTEN_ASM_CONST, type |-> "i", operands |-> <<Const(40), Arg("i")>>],
    [target |-> "puts", type |-> "i", operands |-> <<Const(8)>>] }

Import(name, functionType) == [name |-> name, module |-> "env", functionType |-> functionType]

\* imports of the module when only the walker is run on it
InitialImports == <<Import("puts", "ii")>>

\* wasm::Function / wasm::NameType, as far as the passes read or build them
NameType(name, type) == [name |-> name, type |-> type]
Function(name, params, result, body) ==
  [name |-> name, params |-> params, result |-> result, body |-> body]

\* the functions of the module that the table may reference: two with the
\* signature ii, one v, one with an i64 parameter, one with an i64 result
ModuleFunctions ==
  << Function("f_ii", <<NameType("0", "i")>>, "i", [op |-> "nop"]),
     Function("g_ii", <<NameType("0", "i")>>, "i", [op |-> "nop"]),
     Function("f_v", <<>>, "v", [op |-> "nop"]),
     Function("f_ij", <<NameType("0", "j")>>, "i", [op |-> "nop"]),
     Function("f_j", <<>>, "j", [op |-> "nop"]) >>

FunctionNames == {ModuleFunctions[k].name : k \in 1..Len(ModuleFunctions)}

\* imports a module may carry when makeDynCallThunks is called
ImportPool ==
  { Import("puts", "ii"),
    Import("emscripten_asm", "v"),
    Import("emscripten_asm_const", "iii"),
    Import("emscripten_asm_const_ii", "iii"),
    Import("my_emscripten_asm_const_hook", "v") }

NoSigs == [c \in {} |-> {}]
NoIds == [c \in {} |-> 0]

(***************************************************************************)
(* AsmConstWalker.                                                         *)
(***************************************************************************)
RECURSIVE operandSig(_)
operandSig(operands) ==
  IF operands = <<>> THEN ""
  ELSE Head(operands).type \o operandSig(Tail(operands))

\* getSig(CallImport*): the result type, then the type of every operand
getSig(curr) == curr.type \o operandSig(curr.operands)

\* codeForConstAddr without the end() test: operator[] default-inserts
\* segment index 0 for an address that is not in the map
codeForConstAddrNoEndTest(address) ==
  escape(memorySegments[IF address \in DOMAIN segmentsByAddress
                        THEN segmentsByAddress[address] ELSE 0])

codeForConstAddr(address) ==
  IF address \notin DOMAIN segmentsByAddress
  THEN escape("")
  ELSE escape(memorySegments[segmentsByAddress[address]])

\* idLiteralForCode reading ids.size() after the insertion of the new key
idLiteralForCodeSizeAfter(idsIn, code) ==
  IF code \notin DOMAIN idsIn
  THEN LET id == Cardinality(DOMAIN idsIn) + 1
       IN [id |-> id,
           ids |-> [c \in DOMAIN idsIn \cup {code} |-> IF c = code THEN id ELSE idsIn[c]]]
  ELSE [id |-> idsIn[code], ids |-> idsIn]

\* returns the id and the id map it leaves behind
idLiteralForCode(idsIn, code) ==
  IF code \notin DOMAIN idsIn
  THEN LET id == Cardinality(DOMAIN idsIn)
       IN [id |-> id,
           ids |-> [c \in DOMAIN idsIn \cup {code} |-> IF c = code THEN id ELSE idsIn[c]]]
  ELSE [id |-> idsIn[code], ids |-> idsIn]

RECURSIVE asmConstSigFrom(_, _)
asmConstSigFrom(baseSig, i) ==
  IF i >= Len(baseSig) THEN ""
  ELSE (IF i # 1 THEN CharAt(baseSig, i) ELSE "") \o asmConstSigFrom(baseSig, i + 1)

\* asmConstSig omitting position 0 instead of position 1
asmConstSigOmitFirst(baseSig) == SubSeq(baseSig, 2, Len(baseSig))

asmConstSig(baseSig) == asmConstSigFrom(baseSig, 0)

nameForImportWithSig(sig) == EMSCRIPTEN_ASM_CONST \o "_" \o sig

\* addImport naming the import by the full signature
addImportNamedByBaseSig(imps, importName, baseSig) ==
  Append(imps, Import(EMSCRIPTEN_ASM_CONST \o "_" \o baseSig, baseSig))

\* Module::addImport appends to the import vector
addImport(imps, importName, baseSig) == Append(imps, Import(importName, baseSig))

\* insertSig assigning the set instead of inserting into it
insertSigOverwrite(sigs, code, sig) ==
  [c \in DOMAIN sigs \cup {code} |-> IF c = code THEN {sig} ELSE sigs[c]]

\* sigsForCode[code].insert(sig)
insertSig(sigs, code, sig) ==
  [c \in DOMAIN sigs \cup {code} |->
     IF c = code THEN (IF code \in DOMAIN sigs THEN sigs[code] ELSE {}) \cup {sig}
     ELSE sigs[c]]

\* isNewSig without the lookup: every visit registers an import
isNewSigAlways(sigSet, sig) == TRUE

\* allSigs.count(sig) == 0
isNewSig(sigSet, sig) == sig \notin sigSet

\* the state visitCallImport leaves behind, for the call site curr
visitCallImport(curr, w) ==
  IF hasSubstring(curr.target, EMSCRIPTEN_ASM_CONST)
  THEN LET arg == curr.operands[1]
           code == codeForConstAddr(arg.value)
           lit == idLiteralForCode(w.ids, code)
           baseSig == getSig(curr)
           sig == asmConstSig(baseSig)
           importName == nameForImportWithSig(sig)
           fresh == isNewSig(w.allSigs, sig)
       IN [curr |-> [curr EXCEPT !.operands[1].value = lit.id, !.target = importName],
           ids |-> lit.ids,
           sigsForCode |-> insertSig(w.sigsForCode, code, sig),
           allSigs |-> IF fresh THEN w.allSigs \cup {sig} ELSE w.allSigs,
           imports |-> IF fresh THEN addImport(w.imports, importName, baseSig)
                       ELSE w.imports]
  ELSE [curr |-> curr, ids |-> w.ids, sigsForCode |-> w.sigsForCode,
        allSigs |-> w.allSigs, imports |-> w.imports]

(***************************************************************************)
(* generateEmscriptenMetadata: the text it prints.  std::map and std::set  *)
(* iterate in the byte order of their std::string keys.                    *)
(***************************************************************************)
\* the characters of the model's strings, in ascending byte value
AsciiOrder ==
  "\"$0123456789ABCDEFGHIJKLMNOPQRSTUVWXYZ\\_abcdefghijklmnopqrstuvwxyz"

charCode(c) ==
  find(AsciiOrder, c, 0)

RECURSIVE stringLess(_, _)
\* std::string operator<
stringLess(a, b) ==
  IF b = "" THEN FALSE
  ELSE IF a = "" THEN TRUE
  ELSE IF CharAt(a, 0) = CharAt(b, 0) THEN stringLess(Tail(a), Tail(b))
  ELSE charCode(CharAt(a, 0)) < charCode(CharAt(b, 0))

RECURSIVE inOrder(_)
\* the iteration order of a std::set<std::string> / the keys of a std::map
inOrder(S) ==
  IF S = {} THEN <<>>
  ELSE LET least == CHOOSE x \in S : \A y \in S \ {x} : stringLess(x, y)
       IN <<least>> \o inOrder(S \ {least})

RECURSIVE printItems(_, _)
printItems(items, first) ==
  IF items = <<>> THEN ""
  ELSE (IF first THEN "" ELSE ",") \o "\"" \o Head(items) \o "\""
       \o printItems(Tail(items), FALSE)

printSet(c) == "[" \o printItems(inOrder(c), TRUE) \o "]"

RECURSIVE printAsmConsts(_, _, _, _)
printAsmConsts(codes, sigs, idMap, first) ==
  IF codes = <<>> THEN ""
  ELSE LET code == Head(codes)
       IN (IF first THEN "" ELSE ",")
          \o "\"" \o ToString(idMap[code]) \o "\": [\"" \o code \o "\", "
          \o printSet(sigs[code]) \o "]"
          \o printAsmConsts(Tail(codes), sigs, idMap, FALSE)

RECURSIVE printInitializersNoFirst(_, _)
\* printInitializers without the first-element test
printInitializersNoFirst(funcs, first) ==
  IF funcs = <<>> THEN ""
  ELSE ", " \o "\"" \o Head(funcs) \o "\""
       \o printInitializersNoFirst(Tail(funcs), FALSE)

RECURSIVE printInitializers(_, _)
printInitializers(funcs, first) ==
  IF funcs = <<>> THEN ""
  ELSE (IF first THEN "" ELSE ", ") \o "\"" \o Head(funcs) \o "\""
       \o printInitializers(Tail(funcs), FALSE)

\* everything generateEmscriptenMetadata prints after the walk
printMetadata(sigs, idMap, bump, funcs) ==
  "\"asmConsts\": {" \o printAsmConsts(inOrder(DOMAIN sigs), sigs, idMap, TRUE) \o "}"
  \o "," \o "\"staticBump\": " \o ToString(bump) \o ", "
  \o "\"initializers\": [" \o printInitializers(funcs, TRUE) \o "]"
  \o " }\n"

\* the (staticBump, initializerFunctions) arguments the pipeline may pass
MetadataArgs ==
  { [staticBump |-> 1024, initializerFunctions |-> <<>>],
    [staticBump |-> 0, initializerFunctions |-> <<"init_b", "init_a">>] }

(***************************************************************************)
(* Sequences of at most n elements of S.                                   *)
(***************************************************************************)
RECURSIVE SeqsUpTo(_, _)
SeqsUpTo(S, n) ==
  IF n = 0 THEN {<<>>}
  ELSE LET shorter == SeqsUpTo(S, n - 1)
       IN shorter \cup {Append(s, x) : s \in shorter, x \in S}

(***************************************************************************)
(* Specification of the rewriter and the emitter.                          *)
(***************************************************************************)
ThunksIdle ==
  /\ functions = ModuleFunctions
  /\ tableSegmentData = <<>>
  /\ generatedFunctions = <<>>
  /\ tpc = "idle"

WalkerIdle ==
  /\ pc = "idle"
  /\ pos = 1
  /\ sigsForCode = NoSigs
  /\ ids = NoIds
  /\ allSigs = {}
  /\ o = ""
  /\ staticBump = 0
  /\ initializerFunctions = <<>>
  /\ runs = 0

EscapeIdle ==
  /\ input = ""
  /\ escaped = ""
  /\ epc = "idle"

Init ==
  /\ imports = InitialImports
  /\ calls \in SeqsUpTo(CallShapes, MaxCalls)
  /\ ThunksIdle
  /\ WalkerIdle
  /\ EscapeIdle

\* generateEmscriptenMetadata up to the construction of the walker
BeginMetadata ==
  /\ pc \in {"idle", "done"}
  /\ runs < MaxRuns
  /\ \E args \in MetadataArgs :
       /\ staticBump' = args.staticBump
       /\ initializerFunctions' = args.initializerFunctions
  /\ o' = o \o ";; METADATA: { "
  /\ sigsForCode' = NoSigs
  /\ ids' = NoIds
  /\ allSigs' = {}
  /\ pos' = 1
  /\ pc' = "walk"
  /\ runs' = runs + 1
  /\ UNCHANGED <<imports, calls>>
  /\ UNCHANGED thunkVars
  /\ UNCHANGED escapeVars

\* walkModule reaches the next call site
VisitCallImport ==
  /\ pc = "walk"
  /\ pos <= Len(calls)
  /\ LET after == visitCallImport(calls[pos],
                    [ids |-> ids, sigsForCode |-> sigsForCode,
                     allSigs |-> allSigs, imports |-> imports])
     IN /\ calls' = [calls EXCEPT ![pos] = after.curr]
        /\ ids' = after.ids
        /\ sigsForCode' = after.sigsForCode
        /\ allSigs' = after.allSigs
        /\ imports' = after.imports
  /\ pos' = pos + 1
  /\ UNCHANGED <<pc>>
  /\ UNCHANGED emitVars
  /\ UNCHANGED thunkVars
  /\ UNCHANGED escapeVars

\* walkModule returns; the record is printed
EmitMetadata ==
  /\ pc = "walk"
  /\ pos > Len(calls)
  /\ o' = o \o printMetadata(sigsForCode, ids, staticBump, initializerFunctions)
  /\ pc' = "done"
  /\ UNCHANGED <<imports, calls, pos, sigsForCode, ids, allSigs,
                 staticBump, initializerFunctions, runs>>
  /\ UNCHANGED thunkVars
  /\ UNCHANGED escapeVars

Next == BeginMetadata \/ VisitCallImport \/ EmitMetadata

Spec == Init /\ [][Next]_vars

(***************************************************************************)
(* Vocabulary of the properties.                                           *)
(***************************************************************************)
Intrinsic(call) == hasSubstring(call.target, EMSCRIPTEN_ASM_CONST)

\* a signature without its character at (0-based) position 1
DeletePosition1(full) ==
  IF Len(full) < 2 THEN full
  ELSE SubSeq(full, 1, 1) \o SubSeq(full, 3, Len(full))

ReducedSig(call) == DeletePosition1(getSig(call))

ImportNames == {imports[k].name : k \in 1..Len(imports)}

\* a step of the walk: one call site is visited
VisitStep == pc = "walk" /\ pc' = "walk"

Resolved(address) == address \in DOMAIN segmentsByAddress

AllIntrinsic == \A i \in 1..Len(calls) : Intrinsic(calls[i])

(***************************************************************************)
(* C1: visiting a call site whose resolved string is new gives that string *)
(* the next id (the number of strings seen before it), visiting one whose  *)
(* string was seen before changes no id, and the id map is always a        *)
(* bijection from the strings seen onto 0..n-1.                            *)
(***************************************************************************)
IdsInFirstSeenOrder ==
  [][VisitStep =>
       LET curr == calls[pos]
           n == Cardinality(DOMAIN ids)
       IN /\ Intrinsic(curr) =>
               LET code == codeForConstAddr(curr.operands[1].value)
               IN /\ code \in DOMAIN ids => ids' = ids
                  /\ code \notin DOMAIN ids =>
                       /\ DOMAIN ids' = DOMAIN ids \cup {code}
                       /\ ids'[code] = n
                       /\ \A d \in DOMAIN ids : ids'[d] = ids[d]
          /\ ~Intrinsic(curr) => ids' = ids
          /\ {ids'[c] : c \in DOMAIN ids'} = 0..(Cardinality(DOMAIN ids') - 1)]_vars

\* three intrinsic sites visited, two distinct strings: one was a repeat
IdsWitness ==
  /\ pc = "walk" /\ pos = 4 /\ runs = 1
  /\ AllIntrinsic
  /\ Cardinality(DOMAIN ids) = 2
  /\ calls[1].operands[1].value = 0
  /\ calls[2].operands[1].value = 1
  /\ calls[3].operands[1].value = 0

(***************************************************************************)
(* C2: the signature set of a resolved string is exactly the set of the    *)
(* reduced signatures of the visited call sites that resolved to it (the   *)
(* sites now carrying its id).                                             *)
(***************************************************************************)
SigsForCodeExact ==
  pc \in {"walk", "done"} =>
    /\ DOMAIN sigsForCode = DOMAIN ids
    /\ \A code \in DOMAIN sigsForCode :
         sigsForCode[code] =
           {ReducedSig(calls[i]) :
              i \in {j \in 1..(pos - 1) :
                       /\ Intrinsic(calls[j])
                       /\ calls[j].operands[1].value = ids[code]}}

\* three sites on one string, two of them with the same signature
SigsWitness ==
  /\ pc = "done" /\ runs = 1
  /\ Len(calls) = 3 /\ AllIntrinsic
  /\ Cardinality(DOMAIN ids) = 1
  /\ \E code \in DOMAIN sigsForCode : sigsForCode[code] = {"i", "v"}

(***************************************************************************)
(* C3: a visit adds the import emscripten_asm_const_<reduced signature>,   *)
(* typed by the full signature, exactly when no earlier site of the walk   *)
(* had that reduced signature, and adds nothing otherwise; the target of   *)
(* every rewritten site is the name of an import of the module.            *)
(***************************************************************************)
OneImportPerSig ==
  [][VisitStep =>
       LET curr == calls[pos]
           sig == ReducedSig(curr)
           earlier == {ReducedSig(calls[i]) :
                         i \in {j \in 1..(pos - 1) : Intrinsic(calls[j])}}
       IN IF Intrinsic(curr)
          THEN /\ sig \in earlier => imports' = imports
               /\ sig \notin earlier =>
                    imports' = Append(imports,
                                 [name |-> "emscripten_asm_const_" \o sig,
                                  module |-> "env",
                                  functionType |-> getSig(curr)])
               /\ \A i \in 1..pos :
                    Intrinsic(calls'[i]) =>
                      \E k \in 1..Len(imports') : imports'[k].name = calls'[i].target
          ELSE imports' = imports]_vars

\* three sites, two strings, one reduced signature: one import added
ImportWitness ==
  /\ pc = "walk" /\ pos = 4 /\ runs = 1
  /\ AllIntrinsic
  /\ Cardinality(DOMAIN ids) = 2
  /\ \A i \in 1..3 : calls[i].target = "emscripten_asm_const_i"
  /\ Len(imports) = Len(InitialImports) + 1

(***************************************************************************)
(* C7: visiting an intrinsic call whose address no segment covers rewrites *)
(* it like any other: its string is the empty string, its operand becomes  *)
(* the one id of the empty string, its reduced signature joins the empty   *)
(* string's signature set, and the walk goes on.                           *)
(***************************************************************************)
UnresolvedIsEmptyString ==
  [][(VisitStep /\ Intrinsic(calls[pos])
        /\ ~Resolved(calls[pos].operands[1].value)) =>
       /\ "" \in DOMAIN ids'
       /\ "" \in DOMAIN ids => ids'[""] = ids[""]
       /\ calls'[pos].operands[1].value = ids'[""]
       /\ calls'[pos].target = "emscripten_asm_const_" \o ReducedSig(calls[pos])
       /\ "" \in DOMAIN sigsForCode'
       /\ ReducedSig(calls[pos]) \in sigsForCode'[""]
       /\ pos' = pos + 1]_vars

\* two sites with different unresolved addresses, after a resolved one
UnresolvedWitness ==
  /\ pc = "walk" /\ pos = 4 /\ runs = 1
  /\ AllIntrinsic
  /\ DOMAIN ids = {"x", ""}
  /\ ids[""] = 1
  /\ calls[2].operands[1].value = 1
  /\ calls[3].operands[1].value = 1
  /\ sigsForCode[""] = {"v", "ii"}

(***************************************************************************)
(* C9 as stated: once an intrinsic call site has been rewritten, in this   *)
(* walk or in an earlier run, no step changes it or appends an import      *)
(* named by its target.                                                    *)
(***************************************************************************)
Rewritten(i) ==
  /\ Intrinsic(calls[i])
  /\ \/ runs > 1
     \/ pc = "done"
     \/ pc = "walk" /\ i < pos

AddsImportNamed(name) ==
  /\ Len(imports') = Len(imports) + 1
  /\ imports'[Len(imports')].name = name

RewrittenNeverRevisited ==
  [][\A i \in 1..Len(calls) :
       Rewritten(i) => /\ calls'[i] = calls[i]
                       /\ ~AddsImportNamed(calls[i].target)]_vars

(***************************************************************************)
(* C9 amended: within one walk every step visits exactly the next call     *)
(* site, leaves every other call site as it is and appends no import named *)
(* by the target of a site already rewritten in this walk; printing the    *)
(* record changes no call site and no import.                              *)
(***************************************************************************)
NoRevisitWithinWalk ==
  [][/\ VisitStep =>
          /\ pos' = pos + 1
          /\ Len(calls') = Len(calls)
          /\ \A i \in 1..Len(calls) :
               /\ i # pos => calls'[i] = calls[i]
               /\ (i < pos /\ Intrinsic(calls[i])) =>
                    ~AddsImportNamed(calls[i].target)
     /\ (pc = "walk" /\ pc' = "done") =>
          /\ calls' = calls
          /\ imports' = imports]_vars

\* three sites of one signature rewritten in the second walk
NoRevisitWitness ==
  /\ pc = "done" /\ runs = 2
  /\ Len(calls) = 3 /\ AllIntrinsic
  /\ \A i \in 1..3 : calls[i].target = "emscripten_asm_const_v"

(***************************************************************************)
(* C10: a visit of an intrinsic call sets its first operand to the id of   *)
(* the resolved string and its target to emscripten_asm_const_ followed by *)
(* the full signature without its character at position 1; the other      *)
(* operands, the result type and every other call site stay; a call that   *)
(* is not intrinsic changes nothing.  A signature of length 0 or 1 is its  *)
(* own reduced signature.                                                  *)
(***************************************************************************)
ShortSigs == {"", "v", "i", "d"}

CallSiteRewrite ==
  [][VisitStep =>
       LET curr == calls[pos]
           after == calls'[pos]
       IN /\ Len(calls') = Len(calls)
          /\ \A i \in 1..Len(calls) : i # pos => calls'[i] = calls[i]
          /\ Intrinsic(curr) =>
               /\ after.operands[1].value =
                    ids'[codeForConstAddr(curr.operands[1].value)]
               /\ after.operands[1].type = curr.operands[1].type
               /\ after.target = "emscripten_asm_const_" \o DeletePosition1(getSig(curr))
               /\ after.type = curr.type
               /\ Len(after.operands) = Len(curr.operands)
               /\ \A k \in 2..Len(curr.operands) : after.operands[k] = curr.operands[k]
          /\ ~Intrinsic(curr) =>
               /\ after = curr
               /\ UNCHANGED <<imports, ids, sigsForCode, allSigs>>
          /\ \A s \in ShortSigs : asmConstSig(s) = s
          /\ asmConstSig("iid") = "id"]_vars

\* a three-character signature reduced, next to a call left alone
RewriteWitness ==
  /\ pc = "walk" /\ pos = 3 /\ runs = 1
  /\ calls[1].target = "emscripten_asm_const_id"
  /\ calls[1].operands = <<Const(0), Arg("d")>>
  /\ calls[2] = [target |-> "puts", type |-> "i", operands |-> <<Const(8)>>]

(***************************************************************************)
(* Text predicates for the metadata record.                                *)
(***************************************************************************)
StartsWith(s, prefix) ==
  Len(prefix) <= Len(s) /\ SubSeq(s, 1, Len(prefix)) = prefix

EndsWith(s, suffix) ==
  Len(suffix) <= Len(s) /\ SubSeq(s, Len(s) - Len(suffix) + 1, Len(s)) = suffix

Occurrences(s, pat) ==
  Cardinality({i \in 0..(Len(s) - Len(pat)) : SubSeq(s, i + 1, i + Len(pat)) = pat})

RECURSIVE QuotedInOrder(_)
\* the names, each in double quotes, separated by a comma and a space
QuotedInOrder(names) ==
  IF names = <<>> THEN ""
  ELSE IF Len(names) = 1 THEN "\"" \o names[1] \o "\""
  ELSE "\"" \o names[1] \o "\", " \o QuotedInOrder(Tail(names))

NoIntrinsicCalls == \A i \in 1..Len(calls) : ~Intrinsic(calls[i])

EmptyInputs ==
  /\ pc = "done" /\ runs = 1
  /\ NoIntrinsicCalls
  /\ initializerFunctions = <<>>
  /\ staticBump = 1024

(***************************************************************************)
(* C5 as stated: for zero intrinsic calls, zero initializers and           *)
(* staticBump 1024 the text written is the record with a space after the   *)
(* comma that follows the asmConsts object (with or without the final      *)
(* newline).                                                               *)
(***************************************************************************)
EmptyRecordWithSpace ==
  EmptyInputs =>
    o \in {";; METADATA: { \"asmConsts\": {}, \"staticBump\": 1024, \"initializers\": [] }",
           ";; METADATA: { \"asmConsts\": {}, \"staticBump\": 1024, \"initializers\": [] }\n"}

(***************************************************************************)
(* C5 amended: every call writes one record: it opens with                 *)
(* `;; METADATA: { "asmConsts": {`, and closes with `},"staticBump": <n>,  *)
(* "initializers": [<names in input order>] }` and a newline, with no      *)
(* space between the asmConsts object's comma and "staticBump"; for empty  *)
(* inputs and staticBump 1024 the text is exactly                          *)
(* `;; METADATA: { "asmConsts": {},"staticBump": 1024, "initializers": [] }`*)
(* and a newline.                                                          *)
(***************************************************************************)
MetadataRecordShape ==
  pc = "done" =>
    /\ Occurrences(o, ";; METADATA: ") = runs
    /\ Occurrences(o, "\n") = runs
    /\ StartsWith(o, ";; METADATA: { \"asmConsts\": {")
    /\ EndsWith(o, "},\"staticBump\": " \o ToString(staticBump)
                   \o ", \"initializers\": [" \o QuotedInOrder(initializerFunctions)
                   \o "] }\n")
    /\ EmptyInputs =>
         o = ";; METADATA: { \"asmConsts\": {},\"staticBump\": 1024, \"initializers\": [] }\n"
    /\ (runs = 1 /\ DOMAIN sigsForCode = {"x"} /\ sigsForCode["x"] = {"i", "v"}
          /\ initializerFunctions = <<"init_b", "init_a">>) =>
         o = ";; METADATA: { \"asmConsts\": {\"0\": [\"x\", [\"i\",\"v\"]]},\"staticBump\": 0, \"initializers\": [\"init_b\", \"init_a\"] }\n"

\* the record of a module without intrinsic calls, and one with two initializers
MetadataWitness ==
  /\ pc = "done" /\ runs = 2
  /\ Len(calls) = 1 /\ NoIntrinsicCalls
  /\ initializerFunctions = <<"init_b", "init_a">>
  /\ StartsWith(o, ";; METADATA: { \"asmConsts\": {},\"staticBump\": 1024, \"initializers\": [] }\n")

(***************************************************************************)
(* makeDynCallThunks.                                                      *)
(***************************************************************************)
\* Module::removeImport: erases the first import of that name
removeImport(imps, name) ==
  LET at == {k \in 1..Len(imps) : imps[k].name = name}
  IN IF at = {} THEN imps
     ELSE LET k == CHOOSE x \in at : \A y \in at : x <= y
          IN SubSeq(imps, 1, k - 1) \o SubSeq(imps, k + 1, Len(imps))

RECURSIVE removeAll(_, _)
removeAll(imps, toRemove) ==
  IF toRemove = <<>> THEN imps
  ELSE removeAll(removeImport(imps, Head(toRemove)), Tail(toRemove))

RECURSIVE namesToRemove(_, _)
namesToRemove(imps, name) ==
  IF imps = <<>> THEN <<>>
  ELSE (IF hasSubstring(Head(imps).name, name) THEN <<Head(imps).name>> ELSE <<>>)
       \o namesToRemove(Tail(imps), name)

\* removeImportsWithSubstring stopping at the first match
removeFirstImportWithSubstring(imps, name) ==
  LET toRemove == namesToRemove(imps, name)
  IN IF toRemove = <<>> THEN imps ELSE removeImport(imps, Head(toRemove))

removeImportsWithSubstring(imps, name) == removeAll(imps, namesToRemove(imps, name))

\* Module::getFunction
getFunction(funcs, name) ==
  funcs[CHOOSE k \in 1..Len(funcs) : funcs[k].name = name]

RECURSIVE paramSig(_)
paramSig(params) ==
  IF params = <<>> THEN "" ELSE Head(params).type \o paramSig(Tail(params))

\* getSig(Function*): the result type, then the type of every parameter
getSigOfFunction(func) == func.result \o paramSig(func.params)

\* ensureFunctionType: the function type that the signature string encodes
ensureFunctionType(sig) ==
  [result |-> CharAt(sig, 0),
   params |-> [k \in 1..(Len(sig) - 1) |-> CharAt(sig, k)]]

\* hasI64ResultOrParam looking at the result only
hasI64Result(ft) == ft.result = "j"

hasI64ResultOrParam(ft) ==
  \/ ft.result = "j"
  \/ \E k \in 1..Len(ft.params) : ft.params[k] = "j"

\* the function built by one round of the loop
makeThunk(sig, funcType) ==
  Function("dynCall_" \o sig,
           <<NameType("fptr", "i")>>
             \o [k \in 1..Len(funcType.params) |->
                   NameType(ToString(k - 1), funcType.params[k])],
           funcType.result,
           [op |-> "call_indirect", fullType |-> sig,
            target |-> [op |-> "get_local", index |-> 0, type |-> "i"],
            operands |-> [k \in 1..Len(funcType.params) |->
                            [op |-> "get_local", index |-> k,
                             type |-> funcType.params[k]]]])

RECURSIVE thunkLoop(_, _, _, _)
\* the loop over tableSegmentData, from entry `table` on
thunkLoop(funcs, table, sigs, generated) ==
  IF table = <<>> THEN generated
  ELSE LET sig == getSigOfFunction(getFunction(funcs, Head(table)))
           funcType == ensureFunctionType(sig)
       IN IF hasI64ResultOrParam(funcType)
          THEN thunkLoop(funcs, Tail(table), sigs, generated)
          ELSE IF sig \in sigs
          THEN thunkLoop(funcs, Tail(table), sigs, generated)
          ELSE thunkLoop(Append(funcs, makeThunk(sig, funcType)), Tail(table),
                         sigs \cup {sig}, Append(generated, makeThunk(sig, funcType)))

RECURSIVE DistinctSeqsUpTo(_, _)
DistinctSeqsUpTo(S, n) ==
  IF n = 0 THEN {<<>>}
  ELSE LET shorter == DistinctSeqsUpTo(S, n - 1)
       IN shorter \cup UNION {{Append(s, x) :
                                  x \in {y \in S : \A k \in 1..Len(s) : s[k] # y}} :
                                s \in shorter}

InitThunks ==
  /\ imports \in DistinctSeqsUpTo(ImportPool, MaxImports)
  /\ calls = <<>>
  /\ ThunksIdle
  /\ WalkerIdle
  /\ EscapeIdle

MakeDynCallThunks ==
  /\ tpc = "idle"
  /\ \E table \in SeqsUpTo(FunctionNames, MaxTable) :
       LET generated == thunkLoop(functions, table, {}, <<>>)
       IN /\ tableSegmentData' = table
          /\ generatedFunctions' = generated
          /\ functions' = functions \o generated
  /\ imports' = removeImportsWithSubstring(imports, EMSCRIPTEN_ASM_CONST)
  /\ tpc' = "returned"
  /\ UNCHANGED <<calls>>
  /\ UNCHANGED walkerVars
  /\ UNCHANGED emitVars
  /\ UNCHANGED escapeVars

NextThunks == MakeDynCallThunks

SpecThunks == InitThunks /\ [][NextThunks]_vars

(***************************************************************************)
(* C4: the list makeDynCallThunks returns holds one thunk dynCall_<sig>    *)
(* for the first table entry of every signature without an i64, in the     *)
(* order of those entries, and nothing else; the thunks are the functions  *)
(* added to the module.  The table ii, ii, v, ij gives dynCall_ii,         *)
(* dynCall_v.                                                              *)
(***************************************************************************)
SigAt(i) ==
  LET f == CHOOSE g \in {ModuleFunctions[k] : k \in 1..Len(ModuleFunctions)} :
             g.name = tableSegmentData[i]
  IN getSigOfFunction(f)

Has64(sig) == \E k \in 1..Len(sig) : SubSeq(sig, k, k) = "j"

\* the table entries that are the first of an i64-free signature
FirstEntries ==
  {i \in 1..Len(tableSegmentData) :
     /\ ~Has64(SigAt(i))
     /\ \A k \in 1..(i - 1) : SigAt(k) # SigAt(i)}

NthFirstEntry(m) ==
  CHOOSE i \in FirstEntries : Cardinality({k \in FirstEntries : k < i}) = m - 1

ThunkNames == [m \in 1..Len(generatedFunctions) |-> generatedFunctions[m].name]

ThunksPerSignature ==
  tpc = "returned" =>
    /\ Len(generatedFunctions) = Cardinality(FirstEntries)
    /\ \A m \in 1..Len(generatedFunctions) :
         generatedFunctions[m].name = "dynCall_" \o SigAt(NthFirstEntry(m))
    /\ functions = ModuleFunctions \o generatedFunctions
    /\ tableSegmentData = <<"f_ii", "g_ii", "f_v", "f_ij">> =>
         ThunkNames = <<"dynCall_ii", "dynCall_v">>

\* the table of the example, and one where v comes before ii
ThunksWitness ==
  /\ tpc = "returned"
  /\ tableSegmentData = <<"f_ii", "g_ii", "f_v", "f_ij">>
  /\ ThunkNames = <<"dynCall_ii", "dynCall_v">>
  /\ Len(functions) = Len(ModuleFunctions) + 2

(***************************************************************************)
(* C8: makeDynCallThunks leaves exactly the imports whose name does not    *)
(* contain emscripten_asm_const, in their order and unchanged, whatever    *)
(* the table is.                                                           *)
(***************************************************************************)
HasMarker(imp) == hasSubstring(imp.name, "emscripten_asm_const")

MarkerImportsRemoved ==
  [][(tpc = "idle" /\ tpc' = "returned") =>
       /\ imports' = SelectSeq(imports, LAMBDA imp : ~HasMarker(imp))
       /\ \A k \in 1..Len(imports') : ~HasMarker(imports'[k])]_vars

\* an empty table, and the two imports without the marker left
MarkerWitness ==
  /\ tpc = "returned"
  /\ tableSegmentData = <<>>
  /\ imports = <<Import("emscripten_asm", "v"), Import("puts", "ii")>>

(***************************************************************************)
(* Specification of escape as a function of its input.                     *)
(***************************************************************************)
EscapeAlphabet == {"\\", "\"", "n", "a"}

RECURSIVE StringsUpTo(_, _)
StringsUpTo(S, n) ==
  IF n = 0 THEN {""}
  ELSE LET shorter == StringsUpTo(S, n - 1)
       IN shorter \cup {s \o c : s \in shorter, c \in S}

InitEscape ==
  /\ imports = InitialImports
  /\ calls = <<>>
  /\ ThunksIdle
  /\ WalkerIdle
  /\ input \in StringsUpTo(EscapeAlphabet, MaxLen)
  /\ escaped = ""
  /\ epc = "idle"

Escape ==
  /\ epc = "idle"
  /\ escaped' = escape(input)
  /\ epc' = "returned"
  /\ UNCHANGED <<imports, calls, input>>
  /\ UNCHANGED thunkVars
  /\ UNCHANGED walkerVars
  /\ UNCHANGED emitVars

NextEscape == Escape

SpecEscape == InitEscape /\ [][NextEscape]_vars

(***************************************************************************)
(* C6: escape returns its input with a backslash put before every          *)
(* backslash-n, a backslash put before every double quote that no          *)
(* backslash precedes, and two backslashes put before every double quote   *)
(* that a backslash precedes (the quote escaped, its backslash escaped     *)
(* again); and no double quote of the result is left unescaped, that is,   *)
(* each follows an odd number of backslashes.                              *)
(***************************************************************************)
RECURSIVE Inserted(_, _)
\* the described result, written character by character from position i on
Inserted(s, i) ==
  IF i > Len(s) THEN ""
  ELSE LET c == SubSeq(s, i, i)
           before == IF i = 1 THEN "" ELSE SubSeq(s, i - 1, i - 1)
           after == IF i = Len(s) THEN "" ELSE SubSeq(s, i + 1, i + 1)
       IN (IF c = "\\" /\ after = "n" THEN "\\\\"
           ELSE IF c = "\"" /\ before = "\\" THEN "\\\\\""
           ELSE IF c = "\"" THEN "\\\""
           ELSE c)
          \o Inserted(s, i + 1)

RECURSIVE BackslashesBefore(_, _)
\* the number of consecutive backslashes that end right before position i
BackslashesBefore(s, i) ==
  IF i = 1 \/ SubSeq(s, i - 1, i - 1) # "\\" THEN 0
  ELSE 1 + BackslashesBefore(s, i - 1)

QuotesEscaped(s) ==
  \A i \in 1..Len(s) :
    SubSeq(s, i, i) = "\"" => BackslashesBefore(s, i) % 2 = 1

EscapeInsertions == epc = "returned" => escaped = Inserted(input, 1)

EscapeIsSafe ==
  epc = "returned" =>
    /\ escaped = Inserted(input, 1)
    /\ QuotesEscaped(escaped)

====
